---- MODULE Spec2Model ----
(***************************************************************************)
(* A model of the task scheduler of main.go: the recurrence engine         *)
(* NextDate, the three HTTP handlers that use it (nextDateHandler,         *)
(* addTaskHandler, updateTaskHandler) and the scheduler table.             *)
(*                                                                         *)
(* A Go string is a sequence of one-character strings, a time.Time holding *)
(* a date at midnight is a record [year, month, day].                      *)
(***************************************************************************)
EXTENDS Integers, Sequences, FiniteSets, TLC

\* ------------------------------------------------------------ characters

DigitChars == <<"0", "1", "2", "3", "4", "5", "6", "7", "8", "9">>

IsDigit(c) == \E i \in 1..10 : DigitChars[i] = c

DigitVal(c) == (CHOOSE i \in 1..10 : DigitChars[i] = c) - 1

\* The byte value of a character: the order Go's string comparison uses.
Ord(c) ==
    CASE c = " " -> 32
      [] c = "+" -> 43
      [] c = "," -> 44
      [] c = "-" -> 45
      [] IsDigit(c) -> 48 + DigitVal(c)
      [] c = "a" -> 97
      [] c = "b" -> 98
      [] c = "c" -> 99
      [] c = "d" -> 100
      [] c = "m" -> 109
      [] c = "w" -> 119
      [] c = "x" -> 120
      [] c = "y" -> 121

\* a < b for Go strings: bytewise, a proper prefix is smaller.
StrLess(a, b) ==
    \E i \in 1..(Len(a) + 1) :
        /\ i <= Len(b)
        /\ \A j \in 1..(i - 1) : a[j] = b[j]
        /\ \/ i = Len(a) + 1
           \/ Ord(a[i]) < Ord(b[i])

StrLeq(a, b) == a = b \/ StrLess(a, b)

HasPrefix(s, p) == Len(s) >= Len(p) /\ SubSeq(s, 1, Len(p)) = p

\* ------------------------------------------------------------- calendar

IsLeap(y) == y % 4 = 0 /\ (y % 100 # 0 \/ y % 400 = 0)

DaysIn(m, y) ==
    IF m = 2 THEN (IF IsLeap(y) THEN 29 ELSE 28)
    ELSE IF m \in {4, 6, 9, 11} THEN 30 ELSE 31

\* Days from 0000-03-01 to year-month-day of the proleptic Gregorian
\* calendar; day may lie outside the month, as in Go's time.Date.
DaysFromCivil(y, m, dd) ==
    LET yy  == IF m <= 2 THEN y - 1 ELSE y
        era == yy \div 400
        yoe == yy - era * 400
        mp  == IF m > 2 THEN m - 3 ELSE m + 9
        doy == (153 * mp + 2) \div 5 + dd - 1
    IN  era * 146097 + yoe * 365 + yoe \div 4 - yoe \div 100 + doy

CivilFromDays(z) ==
    LET era == z \div 146097
        doe == z - era * 146097
        yoe == (doe - doe \div 1460 + doe \div 36524 - doe \div 146096) \div 365
        doy == doe - (365 * yoe + yoe \div 4 - yoe \div 100)
        mp  == (5 * doy + 2) \div 153
        dd  == doy - (153 * mp + 2) \div 5 + 1
        m   == IF mp < 10 THEN mp + 3 ELSE mp - 9
        y   == yoe + era * 400 + (IF m <= 2 THEN 1 ELSE 0)
    IN  [year |-> y, month |-> m, day |-> dd]

\* time.Date(year, month, day, ...): the day is normalised into the calendar.
Date(y, m, dd) == CivilFromDays(DaysFromCivil(y, m, dd))

\* t.AddDate(years, 0, days)
AddDate(t, years, days) == Date(t.year + years, t.month, t.day + days)

\* The number of the day t, for comparing two times chronologically.
DayNumber(t) == DaysFromCivil(t.year, t.month, t.day)

\* ------------------------------------------------- formatting and parsing

RECURSIVE Itoa(_)
Itoa(n) == IF n < 10 THEN <<DigitChars[n + 1]>>
           ELSE Itoa(n \div 10) \o <<DigitChars[(n % 10) + 1]>>

RECURSIVE ZeroPad(_, _)
ZeroPad(s, width) == IF Len(s) >= width THEN s ELSE ZeroPad(<<"0">> \o s, width)

\* t.Format(dateFormat), dateFormat = "20060102": the year in at least four
\* digits, the month and the day in two.
Format(t) == ZeroPad(Itoa(t.year), 4) \o ZeroPad(Itoa(t.month), 2) \o ZeroPad(Itoa(t.day), 2)

RECURSIVE DecimalValue(_)
DecimalValue(s) == IF s = <<>> THEN 0
                   ELSE 10 * DecimalValue(SubSeq(s, 1, Len(s) - 1)) + DigitVal(s[Len(s)])

\* time.Parse(dateFormat, s): four digits of year, two of month, two of day,
\* nothing after them, and a day that exists in that month.
ParseDate(s) ==
    IF /\ Len(s) = 8
       /\ \A i \in 1..8 : IsDigit(s[i])
    THEN LET y  == DecimalValue(SubSeq(s, 1, 4))
             m  == DecimalValue(SubSeq(s, 5, 6))
             dd == DecimalValue(SubSeq(s, 7, 8))
         IN  IF m >= 1 /\ m <= 12 /\ dd >= 1 /\ dd <= DaysIn(m, y)
             THEN [ok |-> TRUE, t |-> [year |-> y, month |-> m, day |-> dd]]
             ELSE [ok |-> FALSE, t |-> [year |-> 0, month |-> 0, day |-> 0]]
    ELSE [ok |-> FALSE, t |-> [year |-> 0, month |-> 0, day |-> 0]]

\* --------------------------------------------- scanning the repeat rule

RECURSIVE SkipSpace(_, _)
\* The first position at or after i that holds no space (Len(s) + 1: none).
SkipSpace(s, i) == IF i <= Len(s) /\ s[i] = " " THEN SkipSpace(s, i + 1) ELSE i

RECURSIVE SkipDigits(_, _)
SkipDigits(s, i) == IF i <= Len(s) /\ IsDigit(s[i]) THEN SkipDigits(s, i + 1) ELSE i

RECURSIVE SkipToken(_, _)
SkipToken(s, i) == IF i <= Len(s) /\ s[i] # " " THEN SkipToken(s, i + 1) ELSE i

\* An optional sign and then at least one digit, from position i on; what
\* follows the digits is not looked at.
ScanInt(s, i) ==
    LET j == IF i <= Len(s) /\ s[i] \in {"+", "-"} THEN i + 1 ELSE i
        k == SkipDigits(s, j)
        v == DecimalValue(SubSeq(s, j, k - 1))
    IN  IF k = j THEN [err |-> TRUE, val |-> 0, end |-> i]
        ELSE [err |-> FALSE,
              val |-> IF j > i /\ s[i] = "-" THEN 0 - v ELSE v,
              end |-> k]

\* fmt.Sscanf(repeat, "d %d", &days) for a repeat that starts with "d ": the
\* blank of the format and the verb skip the spaces, the verb reads a signed
\* decimal number, and the input left over is ignored.
SscanfDays(repeat) ==
    LET r == ScanInt(repeat, SkipSpace(repeat, 2))
    IN  [err |-> r.err, val |-> r.val]

\* fmt.Sscanf(repeat, "w %s", &daysOfWeek) for a repeat that starts with
\* "w ": the verb reads up to the next space, and fails at the end of input.
SscanfDaysOfWeek(repeat) ==
    LET i == SkipSpace(repeat, 2)
        k == SkipToken(repeat, i)
    IN  IF i > Len(repeat) THEN [err |-> TRUE, val |-> <<>>]
        ELSE [err |-> FALSE, val |-> SubSeq(repeat, i, k - 1)]

RECURSIVE Split(_)
\* strings.Split(s, ","): the pieces between the commas, empty ones included.
Split(s) ==
    IF \E i \in 1..Len(s) : s[i] = ","
    THEN LET i == CHOOSE k \in 1..Len(s) :
                      s[k] = "," /\ \A j \in 1..(k - 1) : s[j] # ","
         IN  <<SubSeq(s, 1, i - 1)>> \o Split(SubSeq(s, i + 1, Len(s)))
    ELSE <<s>>

\* strconv.Atoi(s): the whole of s is an optional sign and decimal digits.
Atoi(s) ==
    LET r == ScanInt(s, 1)
    IN  IF s = <<>> \/ r.err \/ r.end # Len(s) + 1
        THEN [err |-> TRUE, val |-> 0]
        ELSE [err |-> FALSE, val |-> r.val]

\* The loop over the weekday tokens: no token fails to convert or lies
\* outside 1..7.
DaysOfWeekOk(daysOfWeek) ==
    LET days == Split(daysOfWeek)
    IN  \A i \in 1..Len(days) :
            LET a == Atoi(days[i])
            IN  ~a.err /\ a.val >= 1 /\ a.val <= 7

MaxRepeatDays == 400

\* ------------------------------------------------------------- NextDate

ZeroTime == [year |-> 0, month |-> 0, day |-> 0]

NoStep == [years |-> 0, days |-> 0]

NextDateError(msg) == [err |-> msg, d |-> ZeroTime, step |-> NoStep]

\* What one turn of the loop adds to d, for each case of the switch.
YearlyStep == [years |-> 1, days |-> 0]

DailyStep(days) == [years |-> 0, days |-> days]

WeeklyStepSeven == [years |-> 0, days |-> 7]

WeeklyStep == [years |-> 0, days |-> 1]

FirstAdvanceNone(t, s) == t

\* The d.AddDate before each loop: d is advanced once whatever today is.
FirstAdvance(t, s) == AddDate(t, s.years, s.days)

\* NextDate up to its loop: the parse of the date, the choice of the case of
\* the switch, the check of the rule and the first d.AddDate. err is "" or
\* the error returned; step is what each turn of the loop adds to d.
NextDateEnter(date, repeat) ==
    LET p == ParseDate(date)
    IN  IF ~p.ok THEN NextDateError("invalid date format")
        ELSE IF repeat = <<>> THEN NextDateError("repeat rule is empty")
        ELSE IF repeat = <<"y">>
        THEN [err |-> "", d |-> FirstAdvance(p.t, YearlyStep), step |-> YearlyStep]
        ELSE IF HasPrefix(repeat, <<"d", " ">>)
        THEN LET s == SscanfDays(repeat)
             IN  IF s.err \/ s.val <= 0 \/ s.val > MaxRepeatDays
                 THEN NextDateError("invalid repeat rule")
                 ELSE [err |-> "", d |-> FirstAdvance(p.t, DailyStep(s.val)),
                       step |-> DailyStep(s.val)]
        ELSE IF HasPrefix(repeat, <<"w", " ">>)
        THEN LET s == SscanfDaysOfWeek(repeat)
             IN  IF s.err \/ ~DaysOfWeekOk(s.val)
                 THEN NextDateError("invalid repeat rule")
                 ELSE [err |-> "", d |-> FirstAdvance(p.t, WeeklyStep),
                       step |-> WeeklyStep]
        ELSE NextDateError("unsupported repeat rule")

LoopGuardStrict(t, nw) == StrLess(Format(t), Format(nw))

\* The guard of the three loops: the two dates are compared as text.
LoopGuard(t, nw) == StrLeq(Format(t), Format(nw))

\* The test of the two task handlers for a date in the past, as text too.
IsPast(parsedDate, nw) == StrLess(Format(parsedDate), Format(nw))

\* ---------------------------------------------------------------- state

VARIABLES
    clock,   \* what time.Now() gives the handlers: a date
    form,    \* what the client submits: a now, a date and a repeat
    tasks,   \* the scheduler table: row i is the task with id i
    call,    \* the handler of the latest request
    req,     \* the latest request as it was received
    now,     \* `now` of the handler in flight
    task,    \* `task` of the handler in flight (its Date is overwritten)
    pc,      \* where the handler in flight is: idle, loop, ret, exec
    d,       \* NextDate's d
    step,    \* what the loop of the chosen case adds to d
    iters,   \* turns of NextDate's loop taken so far
    ret,     \* what NextDate returned
    resp,    \* the response written to the latest request
    last     \* the latest date decision of each task handler

vars == <<clock, form, tasks, call, req, now, task, pc, d, step, iters, ret, resp, last>>

NoTask == [id |-> 0, date |-> <<>>, title |-> <<>>, repeat |-> <<>>]

NoRequest == [id |-> 0, date |-> <<>>, title |-> <<>>, repeat |-> <<>>, now |-> <<>>]

NoRet == [date |-> <<>>, err |-> ""]

NoResp == [status |-> 0, error |-> "", body |-> <<>>]

NoDecision == [set |-> FALSE, today |-> <<>>, date |-> <<>>, repeat |-> <<>>,
               nd |-> FALSE, ok |-> FALSE, out |-> <<>>]

\* A date decision of a task handler: the today, date and repeat it had, whether
\* it went through NextDate, and the date it is about to persist (ok) or the
\* rejection (~ok).
Decision(today, date, repeat, nd, ok, out) ==
    [set |-> TRUE, today |-> today, date |-> date, repeat |-> repeat,
     nd |-> nd, ok |-> ok, out |-> out]

ErrorResp(status, msg) == [status |-> status, error |-> msg, body |-> <<>>]

\* Bounds of the model.
MaxIter == 100000

MaxTasks == 2

\* The handler in flight returns: its request and its locals are gone.
EndRequest ==
    /\ pc' = "idle"
    /\ req' = NoRequest
    /\ task' = NoTask
    /\ now' = ZeroTime
    /\ d' = ZeroTime
    /\ step' = NoStep
    /\ iters' = 0
    /\ ret' = NoRet

\* NextDate(now, date, repeat) is entered: it returns at once with an error,
\* or reaches its loop.
CallNextDate(date, repeat) ==
    LET e == NextDateEnter(date, repeat)
    IN  /\ iters' = 0
        /\ d' = e.d
        /\ step' = e.step
        /\ IF e.err # ""
           THEN pc' = "ret" /\ ret' = [date |-> <<>>, err |-> e.err]
           ELSE pc' = "loop" /\ ret' = NoRet

\* One turn of the loop: d = d.AddDate(...).
NextDateLoop ==
    /\ pc = "loop"
    /\ LoopGuard(d, now)
    /\ iters < MaxIter
    /\ d' = AddDate(d, step.years, step.days)
    /\ iters' = iters + 1
    /\ UNCHANGED <<clock, form, tasks, call, req, now, task, pc, step, ret, resp, last>>

\* The loop is left: return d.Format(dateFormat), nil.
NextDateReturn ==
    /\ pc = "loop"
    /\ ~LoopGuard(d, now)
    /\ ret' = [date |-> Format(d), err |-> ""]
    /\ pc' = "ret"
    /\ UNCHANGED <<clock, form, tasks, call, req, now, task, d, step, iters, resp, last>>

\* -------------------------------------------------------- nextDateHandler

nextDateHandler(nowStr, dateStr, repeatStr) ==
    /\ pc = "idle"
    /\ call' = "nextdate"
    /\ LET n == ParseDate(nowStr)
       IN  IF ~n.ok
           THEN /\ resp' = ErrorResp(400, "invalid now date format")
                /\ EndRequest
           ELSE /\ resp' = NoResp
                /\ req' = [id |-> 0, date |-> dateStr, title |-> <<>>,
                           repeat |-> repeatStr, now |-> nowStr]
                /\ task' = NoTask
                /\ now' = n.t
                /\ CallNextDate(dateStr, repeatStr)
    /\ UNCHANGED <<clock, form, tasks, last>>

nextDateRespond ==
    /\ pc = "ret"
    /\ call = "nextdate"
    /\ resp' = IF ret.err # "" THEN ErrorResp(400, ret.err)
               ELSE [status |-> 200, error |-> "", body |-> ret.date]
    /\ EndRequest
    /\ UNCHANGED <<clock, form, tasks, call, last>>

\* ------------------------------------------------------ the task handlers

\* What a handler does about the date of its task before anything is stored:
\* reject the request, call NextDate, or go on with `date`.
Reject == [do |-> "reject", date |-> <<>>]

Advance == [do |-> "nextdate", date |-> <<>>]

Keep(date) == [do |-> "keep", date |-> date]

\* addTaskHandler, from `now := time.Now()` to the call of NextDate.
AddTaskDate(nw, date, repeat) ==
    IF date = <<>> THEN Keep(Format(nw))
    ELSE LET p == ParseDate(date)
         IN  IF ~p.ok THEN Reject
             ELSE IF IsPast(p.t, nw)
             THEN (IF repeat = <<>> THEN Keep(Format(nw)) ELSE Advance)
             ELSE Keep(date)

UpdateTaskDateNotFuture(nw, date, repeat) ==
    IF date = <<>> THEN Keep(Format(nw))
    ELSE LET p == ParseDate(date)
         IN  IF ~p.ok THEN Reject
             ELSE IF StrLeq(Format(p.t), Format(nw))
             THEN (IF repeat = <<>> THEN Keep(Format(nw)) ELSE Advance)
             ELSE Keep(date)

\* updateTaskHandler, from `now := time.Now()` to the call of NextDate.
UpdateTaskDate(nw, date, repeat) ==
    IF date = <<>> THEN Keep(Format(nw))
    ELSE LET p == ParseDate(date)
         IN  IF ~p.ok THEN Reject
             ELSE IF IsPast(p.t, nw)
             THEN (IF repeat = <<>> THEN Keep(Format(nw)) ELSE Advance)
             ELSE Keep(date)

\* The request as the handlers decode it.
Request(t) ==
    [id |-> t.id, date |-> t.date, title |-> t.title, repeat |-> t.repeat, now |-> <<>>]

\* The handler h, past its checks of the request, acts on the decision dec.
BeginTask(h, t, dec) ==
    CASE dec.do = "reject" ->
              /\ resp' = ErrorResp(400, "Invalid date format")
              /\ last' = [last EXCEPT ![h] =
                     Decision(Format(clock), t.date, t.repeat, FALSE, FALSE, <<>>)]
              /\ EndRequest
         [] dec.do = "nextdate" ->
              /\ resp' = NoResp
              /\ req' = Request(t)
              /\ now' = clock
              /\ task' = t
              /\ CallNextDate(t.date, t.repeat)
              /\ UNCHANGED last
         [] dec.do = "keep" ->
              /\ resp' = NoResp
              /\ req' = Request(t)
              /\ now' = clock
              /\ task' = [t EXCEPT !.date = dec.date]
              /\ pc' = "exec"
              /\ last' = [last EXCEPT ![h] =
                     Decision(Format(clock), t.date, t.repeat, FALSE, TRUE, dec.date)]
              /\ UNCHANGED <<d, step, iters, ret>>

addTaskHandler(method, decoded, t) ==
    /\ pc = "idle"
    /\ Len(tasks) < MaxTasks
    /\ call' = "add"
    /\ IF method # "POST"
       THEN /\ resp' = ErrorResp(405, "Method Not Allowed")
            /\ EndRequest
            /\ UNCHANGED last
       ELSE IF ~decoded
       THEN /\ resp' = ErrorResp(400, "Error decoding JSON")
            /\ EndRequest
            /\ UNCHANGED last
       ELSE IF t.title = <<>>
       THEN /\ resp' = ErrorResp(400, "Title is required")
            /\ EndRequest
            /\ UNCHANGED last
       ELSE BeginTask("add", t, AddTaskDate(clock, t.date, t.repeat))
    /\ UNCHANGED <<clock, form, tasks>>

addTaskAfterNextDateNoReturn ==
    /\ pc = "ret"
    /\ call = "add"
    /\ resp' = IF ret.err # "" THEN ErrorResp(400, "Invalid repeat rule") ELSE resp
    /\ task' = [task EXCEPT !.date = ret.date]
    /\ pc' = "exec"
    /\ last' = [last EXCEPT !["add"] =
           Decision(Format(now), req.date, req.repeat, TRUE, ret.err = "", ret.date)]
    /\ UNCHANGED <<clock, form, tasks, call, req, now, d, step, iters, ret>>

\* addTaskHandler once NextDate has returned.
addTaskAfterNextDate ==
    /\ pc = "ret"
    /\ call = "add"
    /\ IF ret.err # ""
       THEN /\ resp' = ErrorResp(400, "Invalid repeat rule")
            /\ last' = [last EXCEPT !["add"] =
                   Decision(Format(now), req.date, req.repeat, TRUE, FALSE, <<>>)]
            /\ EndRequest
       ELSE /\ task' = [task EXCEPT !.date = ret.date]
            /\ pc' = "exec"
            /\ last' = [last EXCEPT !["add"] =
                   Decision(Format(now), req.date, req.repeat, TRUE, TRUE, ret.date)]
            /\ UNCHANGED <<resp, req, now, d, step, iters, ret>>
    /\ UNCHANGED <<clock, form, tasks, call>>

\* INSERT INTO scheduler, and the response with the new id.
addTaskExec ==
    /\ pc = "exec"
    /\ call = "add"
    /\ tasks' = Append(tasks, [date |-> task.date, title |-> task.title,
                               repeat |-> task.repeat])
    /\ resp' = [status |-> 200, error |-> "", body |-> Itoa(Len(tasks) + 1)]
    /\ EndRequest
    /\ UNCHANGED <<clock, form, call, last>>

updateTaskHandler(decoded, t) ==
    /\ pc = "idle"
    /\ call' = "update"
    /\ IF ~decoded
       THEN /\ resp' = ErrorResp(400, "Error decoding JSON")
            /\ EndRequest
            /\ UNCHANGED last
       ELSE IF t.id = 0
       THEN /\ resp' = ErrorResp(400, "ID is required")
            /\ EndRequest
            /\ UNCHANGED last
       ELSE IF t.title = <<>>
       THEN /\ resp' = ErrorResp(400, "Title is required")
            /\ EndRequest
            /\ UNCHANGED last
       ELSE BeginTask("update", t, UpdateTaskDate(clock, t.date, t.repeat))
    /\ UNCHANGED <<clock, form, tasks>>

\* updateTaskHandler once NextDate has returned.
updateTaskAfterNextDate ==
    /\ pc = "ret"
    /\ call = "update"
    /\ IF ret.err # ""
       THEN /\ resp' = ErrorResp(400, "Invalid repeat rule")
            /\ last' = [last EXCEPT !["update"] =
                   Decision(Format(now), req.date, req.repeat, TRUE, FALSE, <<>>)]
            /\ EndRequest
       ELSE /\ task' = [task EXCEPT !.date = ret.date]
            /\ pc' = "exec"
            /\ last' = [last EXCEPT !["update"] =
                   Decision(Format(now), req.date, req.repeat, TRUE, TRUE, ret.date)]
            /\ UNCHANGED <<resp, req, now, d, step, iters, ret>>
    /\ UNCHANGED <<clock, form, tasks, call>>

\* UPDATE scheduler ... WHERE id = ?, and the response: 404 when no row has
\* the id.
updateTaskExec ==
    /\ pc = "exec"
    /\ call = "update"
    /\ IF task.id \in 1..Len(tasks)
       THEN /\ tasks' = [tasks EXCEPT ![task.id] =
                   [date |-> task.date, title |-> task.title, repeat |-> task.repeat]]
            /\ resp' = [status |-> 200, error |-> "", body |-> <<>>]
       ELSE /\ resp' = ErrorResp(404, "task not found")
            /\ UNCHANGED tasks
    /\ EndRequest
    /\ UNCHANGED <<clock, form, call, last>>

\* --------------------------------------------------------------- inputs

RuleY == <<"y">>

RuleD(n) == <<"d", " ">> \o Itoa(n)

RuleW1 == <<"w", " ", "1">>

RuleW7 == <<"w", " ", "7">>

RuleW135 == <<"w", " ", "1", ",", "3", ",", "5">>

RuleWAll == <<"w", " ", "1", ",", "2", ",", "3", ",", "4", ",", "5", ",", "6", ",", "7">>

\* Texts outside the grammar of the rules that NextDate turns down.
RefusedRules ==
    { <<>>, RuleD(0), RuleD(401), RuleD(500),
      <<"d", " ", "x">>, <<"d", " ", "-", "1">>, <<"d", " ">>, <<"d">>, <<"d", "7">>,
      <<"w", " ", "0", ",", "8">>, <<"w", " ", "8">>, <<"w", " ">>, <<"w">>,
      <<"w", " ", "1", ",", ",", "2">>, <<"w", " ", "1", ",", "x">>,
      <<"w", " ", "1", ",">>, <<"m", " ", "1">>, <<"y", "y">>, <<"y", " ">>,
      <<"y", " ", "x">> }

\* Texts with something after a valid day count or weekday list.
PaddedRules ==
    { <<"d", " ", "7", "a", "b", "c">>, <<"d", " ", "7", " ", "x">>,
      <<"d", " ", "4", "0", "0", "x">>,
      <<"w", " ", "1", ",", "3", " ", "x">>, <<"w", " ", "7", " ", "y">> }

DayRules == { RuleD(n) : n \in 1..MaxRepeatDays }

WeekRules == { RuleW1, RuleW7, RuleW135, RuleWAll }

EngineRules == {RuleY} \cup DayRules \cup WeekRules \cup RefusedRules \cup PaddedRules

\* Texts that time.Parse turns down: no such day, no such month, too short,
\* punctuation, nine digits, empty.
BadDates ==
    { <<>>,
      <<"2", "0", "2", "3", "0", "2", "2", "9">>,
      <<"2", "0", "2", "4", "1", "3", "0", "1">>,
      <<"2", "0", "2", "4", "0", "3", "0">>,
      <<"2", "0", "2", "4", "-", "0", "3", "-", "0", "1">>,
      <<"1", "0", "0", "0", "0", "0", "1", "0", "1">> }

\* How far around today the anchors lie, in days, and how far back in years.
Window == 3

YearSpan == 50

EngineTodays == { Date(2024, 3, 1), Date(2024, 2, 29), Date(2023, 12, 31), Date(9997, 6, 1) }

NearAnchors(t) ==
    { AddDate(t, 0, k) : k \in (0 - Window)..Window }
       \cup { AddDate(t, 0, 0 - 60), AddDate(t, 0, 0 - 61), AddDate(t, 0, 14),
              AddDate(t, 0 - 1, 0), AddDate(t, 1, 0),
              AddDate(t, 0, 0 - 400), AddDate(t, 0, 0 - 401) }

FarAnchors(t) ==
    { Date(t.year - k, t.month, t.day) : k \in 1..YearSpan }
       \cup { Date(y, 2, 29) : y \in { z \in (t.year - YearSpan)..(t.year + 1) : IsLeap(z) } }

\* Anchors at the end of the four-digit years, with a today and a rule for each.
LateInputs ==
    { <<Format(Date(1000, 1, 1)), Format(Date(9999, 6, 1)), RuleY>>,
      <<Format(Date(1000, 1, 1)), Format(Date(9999, 12, 31)), RuleD(1)>>,
      <<Format(Date(999, 12, 31)), Format(Date(9999, 12, 31)), RuleW1>>,
      <<Format(Date(2024, 3, 1)), Format(Date(9999, 12, 31)), RuleD(400)>>,
      <<Format(Date(2024, 3, 1)), Format(Date(9999, 12, 31)), RuleY>>,
      <<Format(Date(9998, 12, 30)), Format(Date(9998, 12, 31)), RuleY>>,
      <<Format(Date(9998, 12, 31)), Format(Date(9996, 2, 29)), RuleY>>,
      <<Format(Date(9998, 11, 26)), Format(Date(9998, 11, 26)), RuleD(400)>>,
      <<Format(Date(9999, 12, 30)), Format(Date(9999, 12, 30)), RuleD(1)>>,
      <<Format(Date(9999, 12, 30)), Format(Date(9999, 12, 1)), RuleW135>> }

\* The requests to /api/nextdate: <<now, date, repeat>>.
EngineInputs ==
    UNION { { <<Format(t), Format(a), r>> : a \in NearAnchors(t), r \in EngineRules }
              \cup { <<Format(t), b, r>> : b \in BadDates,
                                           r \in {RuleY, RuleD(7), RuleW1, <<>>} }
              \cup { <<Format(t), Format(a), RuleY>> : a \in FarAnchors(t) }
            : t \in EngineTodays }
      \cup { <<b, Format(Date(2024, 1, 1)), RuleY>> : b \in BadDates }
      \cup LateInputs

\* The clocks the task handlers run under, and what a client submits.
Clocks == { Date(2024, 3, 1), Date(2024, 2, 29) }

FormDates(c) ==
    { Format(AddDate(c, 0 - 1, 0)), Format(c), Format(AddDate(c, 0, 14)), <<>> }

FormRules == { <<>>, RuleY, RuleD(7), <<"d", " ", "7", "a", "b", "c">> }

Title == <<"t">>

\* The dates a client sends: the one of its form, or a day no calendar has.
ClientDates == {form.date, <<"2", "0", "2", "3", "0", "2", "2", "9">>}

\* The rules a client sends: the one of its form, or one NextDate refuses.
ClientRules == {form.repeat, RuleD(500)}

AddRequests ==
    { [method |-> "POST", decoded |-> TRUE, title |-> Title],
      [method |-> "GET", decoded |-> TRUE, title |-> Title],
      [method |-> "POST", decoded |-> FALSE, title |-> Title],
      [method |-> "POST", decoded |-> TRUE, title |-> <<>>] }

UpdateRequests ==
    { [decoded |-> TRUE, title |-> Title],
      [decoded |-> FALSE, title |-> Title],
      [decoded |-> TRUE, title |-> <<>>] }

\* ------------------------------------------------------- specifications

InitWith(clocks) ==
    /\ clock \in clocks
    /\ form \in { [now |-> Format(clock), date |-> dt, repeat |-> r] :
                       dt \in FormDates(clock), r \in FormRules }
    /\ tasks = <<>>
    /\ call = "none"
    /\ req = NoRequest
    /\ now = ZeroTime
    /\ task = NoTask
    /\ pc = "idle"
    /\ d = ZeroTime
    /\ step = NoStep
    /\ iters = 0
    /\ ret = NoRet
    /\ resp = NoResp
    /\ last = [h \in {"add", "update"} |-> NoDecision]

Init == InitWith(Clocks)

PostTask ==
    \E r \in AddRequests, dt \in ClientDates, rule \in ClientRules :
        addTaskHandler(r.method, r.decoded,
            [id |-> 0, date |-> dt, title |-> r.title, repeat |-> rule])

PutTask ==
    \E r \in UpdateRequests, id \in 0..(Len(tasks) + 1), dt \in ClientDates,
       rule \in ClientRules :
        updateTaskHandler(r.decoded,
            [id |-> id, date |-> dt, title |-> r.title, repeat |-> rule])

GetNextDate ==
    \E n \in {form.now, <<"2", "0", "2", "4">>} :
        nextDateHandler(n, form.date, form.repeat)

Next ==
    \/ PostTask
    \/ PutTask
    \/ GetNextDate
    \/ NextDateLoop
    \/ NextDateReturn
    \/ nextDateRespond
    \/ addTaskAfterNextDate
    \/ addTaskExec
    \/ updateTaskAfterNextDate
    \/ updateTaskExec

\* The whole server under a client that keeps to one form.
Spec == Init /\ [][Next]_vars

\* The recurrence engine alone, behind /api/nextdate.
InitNextDate ==
    /\ clock = Date(2024, 3, 1)
    /\ form \in { [now |-> i[1], date |-> i[2], repeat |-> i[3]] : i \in EngineInputs }
    /\ tasks = <<>>
    /\ call = "none"
    /\ req = NoRequest
    /\ now = ZeroTime
    /\ task = NoTask
    /\ pc = "idle"
    /\ d = ZeroTime
    /\ step = NoStep
    /\ iters = 0
    /\ ret = NoRet
    /\ resp = NoResp
    /\ last = [h \in {"add", "update"} |-> NoDecision]

GetNextDateForm == nextDateHandler(form.now, form.date, form.repeat)

NextNextDate ==
    \/ GetNextDateForm
    \/ NextDateLoop
    \/ NextDateReturn
    \/ nextDateRespond

SpecNextDate == InitNextDate /\ [][NextNextDate]_vars

\* A client that creates the task of its form and then saves again what it
\* reads back, under clocks up to the last of the four-digit years.
ResaveClocks == Clocks \cup { Date(9999, 1, 15) }

InitResave == InitWith(ResaveClocks)

PostForm ==
    addTaskHandler("POST", TRUE,
        [id |-> 0, date |-> form.date, title |-> Title, repeat |-> form.repeat])

PutStored ==
    \E id \in 1..Len(tasks) :
        updateTaskHandler(TRUE,
            [id |-> id, date |-> tasks[id].date, title |-> tasks[id].title,
             repeat |-> tasks[id].repeat])

NextResave ==
    \/ PostForm
    \/ PutStored
    \/ NextDateLoop
    \/ NextDateReturn
    \/ addTaskAfterNextDate
    \/ addTaskExec
    \/ updateTaskExec

SpecResave == InitResave /\ [][NextResave]_vars

\* --------------------------------------------------------------- claims

\* The last date that dateFormat writes in eight characters.
LastDate == Date(9999, 12, 31)

\* The rules of the grammar: "y", "d N" with N in 1..400 written in decimal,
\* "w" and weekdays 1..7 between commas.
StrictDayRule(r) == \E n \in 1..MaxRepeatDays : r = RuleD(n)

StrictWeekRule(r) ==
    /\ HasPrefix(r, <<"w", " ">>)
    /\ Len(r) >= 3
    /\ Len(r) % 2 = 1
    /\ \A i \in 3..Len(r) :
           IF i % 2 = 1 THEN r[i] \in {"1", "2", "3", "4", "5", "6", "7"}
           ELSE r[i] = ","

StrictRule(r) == r = RuleY \/ StrictDayRule(r) \/ StrictWeekRule(r)

\* The step the grammar gives a rule.
RuleStep(r) ==
    IF r = RuleY THEN [years |-> 1, days |-> 0]
    ELSE IF StrictDayRule(r)
    THEN [years |-> 0, days |-> CHOOSE n \in 1..MaxRepeatDays : r = RuleD(n)]
    ELSE [years |-> 0, days |-> 1]

\* NextDate, called by nextDateHandler with a date it can parse, has returned;
\* now is its today, Anchor its date, d the date it returns when it returns one.
Returned == pc = "ret" /\ call = "nextdate" /\ ParseDate(req.date).ok

Anchor == ParseDate(req.date).t

Back(t, s) == AddDate(t, 0 - s.years, 0 - s.days)

\* C1: for a parseable anchor and a rule of the grammar NextDate returns the
\* first date after today of the sequence anchor + step, anchor + 2 steps, ...:
\* the date is after today, and it is one step after the anchor or the date one
\* step before it is not after today.
C1_FirstDateAfterToday ==
    (Returned /\ StrictRule(req.repeat)) =>
        /\ ret.err = ""
        /\ ret.date = Format(d)
        /\ DayNumber(d) > DayNumber(now)
        /\ \/ d = AddDate(Anchor, RuleStep(req.repeat).years, RuleStep(req.repeat).days)
           \/ DayNumber(Back(d, RuleStep(req.repeat))) <= DayNumber(now)

\* C2 as stated: for "d N" the date returned is after today and N days before
\* it is not after today, for every today and anchor.
C2_Original ==
    (Returned /\ StrictDayRule(req.repeat)) =>
        /\ ret.err = ""
        /\ DayNumber(d) > DayNumber(now)
        /\ DayNumber(d) - RuleStep(req.repeat).days <= DayNumber(now)

\* Neither the anchor nor today is within n days of the last eight-character
\* date.
DaysInRange(n) ==
    /\ DayNumber(Anchor) + n <= DayNumber(LastDate)
    /\ DayNumber(now) + n <= DayNumber(LastDate)

\* C2 amended: for "d N", 1 <= N <= 400, with anchor and today at least N days
\* before 99991231, the date returned is after today; N days before it is not
\* after today when the anchor is not after today, and is the anchor when the
\* anchor is after today.
C2_EveryNDays ==
    (Returned /\ StrictDayRule(req.repeat) /\ DaysInRange(RuleStep(req.repeat).days)) =>
        /\ ret.err = ""
        /\ ret.date = Format(d)
        /\ DayNumber(d) > DayNumber(now)
        /\ IF DayNumber(Anchor) <= DayNumber(now)
           THEN DayNumber(d) - RuleStep(req.repeat).days <= DayNumber(now)
           ELSE DayNumber(d) - RuleStep(req.repeat).days = DayNumber(Anchor)

\* NextDate has gone round its loop for a "d N" rule from an anchor before
\* today, more than once.
C2_Witness ==
    /\ Returned
    /\ StrictDayRule(req.repeat)
    /\ DaysInRange(RuleStep(req.repeat).days)
    /\ ret.err = ""
    /\ DayNumber(Anchor) < DayNumber(now)
    /\ iters >= 2

\* C3 as stated: for "y" the date returned is after today and one calendar year
\* before it is not after today, for every today and anchor.
C3_Original ==
    (Returned /\ req.repeat = RuleY) =>
        /\ ret.err = ""
        /\ DayNumber(d) > DayNumber(now)
        /\ DayNumber(AddDate(d, 0 - 1, 0)) <= DayNumber(now)

\* C3 amended: for "y", with anchor and today in years up to 9998, the date
\* returned is after today; it is the anchor plus one calendar year when the
\* anchor is after today; otherwise one calendar year before it is not after
\* today, except that an anchor of 29 February that is today gives 1 March of
\* the next year.
C3_Yearly ==
    (Returned /\ req.repeat = RuleY /\ Anchor.year <= 9998 /\ now.year <= 9998) =>
        /\ ret.err = ""
        /\ ret.date = Format(d)
        /\ DayNumber(d) > DayNumber(now)
        /\ IF DayNumber(Anchor) > DayNumber(now)
           THEN d = AddDate(Anchor, 1, 0)
           ELSE IF Anchor = now /\ Anchor.month = 2 /\ Anchor.day = 29
           THEN d = [year |-> Anchor.year + 1, month |-> 3, day |-> 1]
           ELSE DayNumber(AddDate(d, 0 - 1, 0)) <= DayNumber(now)

\* NextDate has gone round its loop for "y" from an anchor of 29 February.
C3_Witness ==
    /\ Returned
    /\ req.repeat = RuleY
    /\ ret.err = ""
    /\ Anchor.month = 2
    /\ Anchor.day = 29
    /\ now.year <= 9998
    /\ iters >= 2

\* C4 as stated: for a "w" rule with weekdays in 1..7 NextDate succeeds and
\* returns today plus one day, for every today and anchor.
C4_Original ==
    (Returned /\ StrictWeekRule(req.repeat)) =>
        /\ ret.err = ""
        /\ d = AddDate(now, 0, 1)

\* C4 amended: for a "w" rule with weekdays in 1..7, with anchor and today
\* before 99991231, NextDate succeeds and returns the day after the later of
\* today and the anchor, whatever weekdays the list names.
C4_Weekly ==
    (/\ Returned
     /\ StrictWeekRule(req.repeat)
     /\ DayNumber(Anchor) < DayNumber(LastDate)
     /\ DayNumber(now) < DayNumber(LastDate)) =>
        /\ ret.err = ""
        /\ ret.date = Format(d)
        /\ d = AddDate(IF DayNumber(Anchor) > DayNumber(now) THEN Anchor ELSE now, 0, 1)

\* NextDate has gone round its loop for the rule "w 1,3,5" from an anchor
\* before today.
C4_Witness ==
    /\ Returned
    /\ req.repeat = RuleW135
    /\ ret.err = ""
    /\ DayNumber(Anchor) < DayNumber(now)
    /\ DayNumber(now) < DayNumber(LastDate)
    /\ iters >= 2

\* C5: with a parseable anchor NextDate returns an error for every rule text
\* outside the grammar.
C5_OnlyTheGrammar ==
    (Returned /\ ~StrictRule(req.repeat)) => ret.err # ""

\* The days from the anchor to today, none when the anchor is after today.
Distance ==
    IF DayNumber(now) > DayNumber(Anchor) THEN DayNumber(now) - DayNumber(Anchor) ELSE 0

\* The least number of days a step of the rule covers.
StepDays(r) == IF r = RuleY THEN 365 ELSE RuleStep(r).days

\* C9: for a parseable anchor and a rule of the grammar the loop of NextDate
\* takes no more turns than the distance from the anchor to today divided by
\* the step, plus one.
C9_LoopBound ==
    (/\ call = "nextdate"
     /\ pc \in {"loop", "ret"}
     /\ ParseDate(req.date).ok
     /\ StrictRule(req.repeat)
     /\ ret.err = "") =>
        iters <= Distance \div StepDays(req.repeat) + 1

\* C10: every date NextDate formats has eight characters, and the comparison of
\* its text with the text of today agrees with the order of the two dates.
C10_EightCharacters ==
    (pc = "loop" \/ (pc = "ret" /\ ret.err = "")) =>
        /\ Len(Format(d)) = 8
        /\ Len(Format(now)) = 8
        /\ LoopGuard(d, now) <=> (DayNumber(d) <= DayNumber(now))

\* The date decision o follows the policy of the four steps.
FollowsPolicy(o) ==
    IF o.date = <<>> THEN ~o.nd /\ o.ok /\ o.out = o.today
    ELSE IF ~ParseDate(o.date).ok THEN ~o.nd /\ ~o.ok
    ELSE IF DayNumber(ParseDate(o.date).t) < DayNumber(ParseDate(o.today).t)
    THEN (IF o.repeat = <<>> THEN ~o.nd /\ o.ok /\ o.out = o.today ELSE o.nd)
    ELSE ~o.nd /\ o.ok /\ o.out = o.date

SameInput(o, q) == o.today = q.today /\ o.date = q.date /\ o.repeat = q.repeat

\* C6: addTaskHandler and updateTaskHandler decide the date to persist by the
\* same policy: an empty date gives today, an unparseable one is rejected, a
\* date before today gives today without a rule and what NextDate(today, date,
\* rule) returns with one, a date of today or later is kept and its rule not
\* looked at; on the same today, date and rule both persist the same date or
\* both reject.
C6_SamePolicy ==
    /\ \A h \in {"add", "update"} : last[h].set => FollowsPolicy(last[h])
    /\ (last["add"].set /\ last["update"].set /\ SameInput(last["add"], last["update"]))
           => last["add"] = last["update"]
    /\ (call \in {"add", "update"} /\ pc \in {"loop", "ret"}) =>
           /\ now = clock
           /\ task.date = req.date
           /\ task.repeat = req.repeat
           /\ req.repeat # <<>>
           /\ DayNumber(ParseDate(req.date).t) < DayNumber(clock)
    /\ (call \in {"add", "update"} /\ pc = "exec") =>
           /\ last[call].set
           /\ last[call].ok
           /\ SameInput(last[call], [today |-> Format(clock), date |-> req.date,
                                    repeat |-> req.repeat])
           /\ task.date = last[call].out
           /\ last[call].nd => (ret.err = "" /\ ret.date = task.date)

\* Both handlers have been through NextDate on the same today, date and rule
\* and have a date to persist.
C6_Witness ==
    /\ last["add"].set
    /\ last["update"].set
    /\ SameInput(last["add"], last["update"])
    /\ last["add"].nd
    /\ last["add"].ok
    /\ last["update"].ok

\* A stored task holds the date and the repeat of the decision o: o is a
\* second normalization of what a first one gave, under the same clock.
Renormalizes(o) ==
    /\ o.set
    /\ \E i \in 1..Len(tasks) : tasks[i].date = o.date /\ tasks[i].repeat = o.repeat

\* C7: normalizing the date a normalization gave, with the same rule and the
\* same today, succeeds and gives that date again.
C7_Idempotent ==
    \A h \in {"add", "update"} :
        Renormalizes(last[h]) => (last[h].ok /\ last[h].out = last[h].date)

\* C8: a request that is rejected leaves the table as it was: the table
\* changes only in the step of a request that answers it, and answers 200.
C8_RejectedWritesNothing ==
    [][tasks' # tasks => (pc = "exec" /\ resp = NoResp /\ resp'.status = 200)]_vars

\* A request has been rejected for its date or its rule while a task is stored.
C8_Witness ==
    /\ pc = "idle"
    /\ resp.status = 400
    /\ resp.error \in {"Invalid date format", "Invalid repeat rule"}
    /\ Len(tasks) >= 1

====
